---- MODULE Spec2Model ----
(***************************************************************************)
(* Model of the Router class of src/router.js: the per-method registry     *)
(* (#routes), the registration operations get / post / static (through     *)
(* #add) and the asynchronous dispatch operation route.                    *)
(*                                                                         *)
(* JavaScript strings are modelled as sequences of one-character strings,  *)
(* so that template literals, the "/"-separated pattern syntax and the     *)
(* extraction of captures are computed, not assumed.                       *)
(*                                                                         *)
(* JavaScript is single-threaded: a step of the model is one run of code   *)
(* between two suspension points.  get, post and static are synchronous    *)
(* and are one step each.  route runs from its call to its first `await`   *)
(* (or to its end) in one step, and from the resumption of an `await` to   *)
(* the next `await` (or to its end) in one step.                           *)
(***************************************************************************)
EXTENDS Integers, Sequences, FiniteSets, TLC

VARIABLES
    routes,     \* #routes: method -> ordered table of (pathname, handler)
    calls,      \* the route() calls: one record per call slot
    lastAdd,    \* how the last #add call ended: "threw" (to the caller of
                \* get/post/static), "appended", "replaced" or "ignored"
    platform    \* the URLPattern implementation of the runtime

vars == <<routes, calls, lastAdd, platform>>

-----------------------------------------------------------------------------
(* Bounds of the model.                                                    *)

\* At most MaxRoutes entries are registered under one method.
MaxRoutes == 2

-----------------------------------------------------------------------------
(* JavaScript values: a type tag (typeof) and the string String(v).        *)

JSString(chars) == [type |-> "string", str |-> chars]

Undefined == [type |-> "undefined", str |-> <<"u","n","d","e","f","i","n","e","d">>]

JSNumber7 == [type |-> "number", str |-> <<"7">>]

\* `${v}` and "..." + v
ToStr(v) == v.str

\* Whether chars ends with suffix (the regular expression /\.js$/s).
EndsWith(chars, suffix) ==
    /\ Len(chars) >= Len(suffix)
    /\ SubSeq(chars, Len(chars) - Len(suffix) + 1, Len(chars)) = suffix

\* chars.split(sep)
RECURSIVE SplitAcc(_, _, _)
SplitAcc(chars, sep, cur) ==
    IF chars = <<>> THEN <<cur>>
    ELSE IF Head(chars) = sep
         THEN <<cur>> \o SplitAcc(Tail(chars), sep, <<>>)
         ELSE SplitAcc(Tail(chars), sep, Append(cur, Head(chars)))

Split(chars, sep) == SplitAcc(chars, sep, <<>>)

\* pieces.join(sep)
RECURSIVE Join(_, _)
Join(pieces, sep) ==
    IF pieces = <<>> THEN <<>>
    ELSE IF Len(pieces) = 1 THEN Head(pieces)
         ELSE Head(pieces) \o <<sep>> \o Join(Tail(pieces), sep)

-----------------------------------------------------------------------------
(* URLPattern, the pattern-matching collaborator of route:                 *)
(*     const url = new URLPattern({ pathname });                           *)
(*     url.test(req.url);  url.exec(req.url)?.pathname.groups              *)
(* Only the pathname component is given, so every other component of the   *)
(* URL is a wildcard and a URL is matched by its path alone.  The model    *)
(* covers the pattern syntax of the pathnames it registers: "/"-separated  *)
(* segments that are literal text, a named group ":name" (one non-empty    *)
(* segment) or a named group with the zero-or-more modifier ":name*"       *)
(* (any number of non-empty segments).  A "(" opens a regular-expression   *)
(* group; the pathnames of the model never close it, and the constructor   *)
(* throws a TypeError on such a pattern, as it does on a ":" that no name  *)
(* follows and on a name used twice.                                       *)

\* One segment of a pattern.
ParsePart(piece) ==
    IF piece # <<>> /\ Head(piece) = ":"
    THEN IF Len(piece) > 1 /\ piece[Len(piece)] = "*"
         THEN [kind |-> "star", text |-> SubSeq(piece, 2, Len(piece) - 1)]
         ELSE [kind |-> "name", text |-> Tail(piece)]
    ELSE [kind |-> "lit", text |-> piece]

ParseParts(chars) ==
    LET pieces == Split(chars, "/")
    IN  [k \in 1..Len(pieces) |-> ParsePart(pieces[k])]

\* Whether new URLPattern({ pathname }) returns (FALSE: it throws TypeError).
PatternValid(chars) ==
    LET parts == ParseParts(chars)
        pieces == Split(chars, "/")
    IN  /\ \A k \in 1..Len(pieces) : \A j \in 1..Len(pieces[k]) : pieces[k][j] # "("
        /\ \A k \in 1..Len(parts) : parts[k].kind # "lit" => parts[k].text # <<>>
        /\ \A k, j \in 1..Len(parts) :
              (k # j /\ parts[k].kind # "lit" /\ parts[j].kind # "lit")
                  => parts[k].text # parts[j].text

\* new URLPattern({ pathname })
URLPattern(pathname) ==
    IF PatternValid(pathname)
    THEN [valid |-> TRUE, parts |-> ParseParts(pathname)]
    ELSE [valid |-> FALSE, parts |-> <<>>]

\* The value of a group that took part in no match: undefined in the
\* current URLPattern standard, the empty string in earlier runtimes.
UnmatchedGroup ==
    IF platform = "unmatchedUndefined" THEN Undefined ELSE JSString(<<>>)

NoMatch == [ok |-> FALSE, groups |-> <<>>]

AllNonEmpty(pieces) == \A k \in 1..Len(pieces) : pieces[k] # <<>>

\* The match of the pattern segments `parts` against the path segments
\* `pieces`; a ":name*" group is greedy.
RECURSIVE MatchParts(_, _)
MatchParts(parts, pieces) ==
    IF parts = <<>>
    THEN IF pieces = <<>> THEN [ok |-> TRUE, groups |-> <<>>] ELSE NoMatch
    ELSE LET p == Head(parts) IN
         IF p.kind = "lit"
         THEN IF pieces # <<>> /\ Head(pieces) = p.text
              THEN MatchParts(Tail(parts), Tail(pieces))
              ELSE NoMatch
         ELSE IF p.kind = "name"
         THEN IF pieces # <<>> /\ Head(pieces) # <<>>
              THEN LET rest == MatchParts(Tail(parts), Tail(pieces)) IN
                   IF rest.ok
                   THEN [ok |-> TRUE,
                         groups |-> (p.text :> JSString(Head(pieces))) @@ rest.groups]
                   ELSE NoMatch
              ELSE NoMatch
         ELSE LET fits == {n \in 0..Len(pieces) :
                              /\ AllNonEmpty(SubSeq(pieces, 1, n))
                              /\ MatchParts(Tail(parts),
                                            SubSeq(pieces, n + 1, Len(pieces))).ok}
              IN  IF fits = {} THEN NoMatch
                  ELSE LET n == CHOOSE m \in fits : \A o \in fits : o <= m
                           rest == MatchParts(Tail(parts),
                                              SubSeq(pieces, n + 1, Len(pieces)))
                       IN [ok |-> TRUE,
                           groups |-> (p.text :>
                                          (IF n = 0 THEN UnmatchedGroup
                                           ELSE JSString(Join(SubSeq(pieces, 1, n), "/"))))
                                      @@ rest.groups]

\* url.test(req.url)
Test(url, reqUrl) == MatchParts(url.parts, Split(reqUrl, "/")).ok

\* exec that binds every group to the whole path.
ExecWholePath(url, reqUrl) ==
    LET groups == MatchParts(url.parts, Split(reqUrl, "/")).groups
    IN  [name \in DOMAIN groups |-> JSString(reqUrl)]

\* url.exec(req.url)?.pathname.groups
Exec(url, reqUrl) == MatchParts(url.parts, Split(reqUrl, "/")).groups

-----------------------------------------------------------------------------
(* Requests, responses and handlers.                                       *)

Null == [type |-> "object", str |-> <<"n","u","l","l">>]

\* A Request: its method, the path of its url (the origin is the same for
\* every request and no pattern constrains it) and its body (json: whether
\* req.json() resolves; test: the "test" member of the parsed body).
Request(method, url, body) == [method |-> method, url |-> url, body |-> body]

NoBody == [json |-> FALSE, test |-> <<>>]

JsonBody(test) == [json |-> TRUE, test |-> test]

NoRequest == Request("", <<>>, NoBody)

\* new Response(body, { status, headers })
Response(body, status, headers) ==
    [body |-> body, status |-> status, headers |-> headers]

NoResponse == Response(Null, 0, {})

\* The handlers: a function and, for the closure static() builds, the
\* folder it captured.
Handler(fn, dir) == [fn |-> fn, dir |-> dir]

\* ({ params }) => new Response(`test, ${params.id}!`)
hParams == Handler("params", <<>>)

\* async ({ req }) => { const body = await req.json();
\*                      return new Response(`test, ${body.test}!`); }
hBody == Handler("body", <<>>)

\* () => { throw new Error("TEST"); }
hThrow == Handler("throw", <<>>)

\* The handler static(pathname, foldername) registers.
StaticHandler(foldername) == Handler("static", foldername)

\* params.name
Member(params, name) ==
    IF name \in DOMAIN params THEN params[name] ELSE Undefined

PathGroup == <<"p","a","t","h">>

IdGroup == <<"i","d">>

Greeting(chars) == <<"t","e","s","t",","," ">> \o chars \o <<"!">>

\* handler({ req, params }) up to its return: "throw" when the call throws
\* synchronously, "promise" when it returns a value or a promise, which
\* route awaits.
HandlerCall(handler, req, params) ==
    IF handler.fn = "throw"
    THEN [kind |-> "throw", error |-> "Error: TEST"]
    ELSE [kind |-> "promise", error |-> ""]

\* Settled with a static handler that has no try/catch: a failure of
\* Deno.open rejects the promise of the handler.
SettledOpenRaises(handler, req, params, opened) ==
    IF handler.fn = "params"
    THEN [kind |-> "value", error |-> "",
          response |-> Response(JSString(Greeting(ToStr(Member(params, IdGroup)))),
                                200, {})]
    ELSE IF handler.fn = "body"
    THEN IF req.body.json
         THEN [kind |-> "value", error |-> "",
               response |-> Response(JSString(Greeting(req.body.test)), 200, {})]
         ELSE [kind |-> "error", error |-> "SyntaxError", response |-> NoResponse]
    ELSE IF opened
         THEN LET path == ToStr(Member(params, PathGroup))
                  file == <<".", "/">> \o handler.dir \o <<"/">> \o path
              IN  [kind |-> "value", error |-> "",
                   response |->
                       Response([type |-> "stream", str |-> file], 200,
                                IF EndsWith(path, <<".","j","s">>)
                                THEN {<<"content-type", "text/javascript">>}
                                ELSE {})]
         ELSE [kind |-> "error", error |-> "NotFound", response |-> NoResponse]

\* What `await handler({ req, params })` resumes with; `opened` is whether
\* Deno.open succeeded for the static handler.
Settled(handler, req, params, opened) ==
    IF handler.fn = "params"
    THEN [kind |-> "value", error |-> "",
          response |-> Response(JSString(Greeting(ToStr(Member(params, IdGroup)))),
                                200, {})]
    ELSE IF handler.fn = "body"
    THEN IF req.body.json
         THEN [kind |-> "value", error |-> "",
               response |-> Response(JSString(Greeting(req.body.test)), 200, {})]
         ELSE [kind |-> "error", error |-> "SyntaxError", response |-> NoResponse]
    ELSE IF opened
         THEN LET path == ToStr(Member(params, PathGroup))
                  file == <<".", "/">> \o handler.dir \o <<"/">> \o path
              IN  [kind |-> "value", error |-> "",
                   response |->
                       Response([type |-> "stream", str |-> file], 200,
                                IF EndsWith(path, <<".","j","s">>)
                                THEN {<<"content-type", "text/javascript">>}
                                ELSE {})]
         ELSE [kind |-> "value", error |-> "",
               response |-> Response(JSString(<<"N","o","t"," ","F","o","u","n","d">>),
                                     404, {})]

-----------------------------------------------------------------------------
(* The registry and registration.                                          *)

Methods == {"GET", "POST"}

\* Map.set written as delete-then-insert: an overwritten key moves last.
MapSetMovesKey(table, key, value) ==
    Append(SelectSeq(table, LAMBDA e : e.pathname # key),
           [pathname |-> key, handler |-> value])

\* Map.prototype.set on an insertion-ordered Map: a present key keeps its
\* place and takes the new value, a new key goes last.
MapSet(table, key, value) ==
    IF \E k \in 1..Len(table) : table[k].pathname = key
    THEN [k \in 1..Len(table) |->
             IF table[k].pathname = key
             THEN [pathname |-> key, handler |-> value]
             ELSE table[k]]
    ELSE Append(table, [pathname |-> key, handler |-> value])

MapHas(table, key) == \E k \in 1..Len(table) : table[k].pathname = key

\* The check of #add without its typeof test.
InvalidPathnameEmptyOnly(pathname) == pathname.str = <<>>

\* The check of #add without its test for the empty string.
InvalidPathnameNonStringOnly(pathname) == pathname.type # "string"

\* The check of #add: typeof pathname !== "string" || pathname === "".
InvalidPathname(pathname) == pathname.type # "string" \/ pathname.str = <<>>

\* RoutesSet that makes a table for a method that has none.
RoutesSetCreatesTable(rts, method, pathname, handler) ==
    IF method \in DOMAIN rts
    THEN [rts EXCEPT ![method] = MapSet(@, pathname.str, handler)]
    ELSE [m \in DOMAIN rts \cup {method} |->
             IF m = method
             THEN <<[pathname |-> pathname.str, handler |-> handler]>>
             ELSE rts[m]]

\* this.#routes.get(method)?.set(pathname, handler)
RoutesSet(rts, method, pathname, handler) ==
    IF method \in DOMAIN rts
    THEN [rts EXCEPT ![method] = MapSet(@, pathname.str, handler)]
    ELSE rts

\* #add(method, pathname, handler)
Add(method, pathname, handler) ==
    IF InvalidPathname(pathname)
    THEN /\ lastAdd' = "threw"
         /\ UNCHANGED routes
    ELSE /\ lastAdd' = IF method \notin DOMAIN routes THEN "ignored"
                       ELSE IF MapHas(routes[method], pathname.str) THEN "replaced"
                       ELSE "appended"
         /\ routes' = RoutesSet(routes, method, pathname, handler)

\* The model registers at most MaxRoutes patterns under a method.
HasRoom(method, pathname) ==
    IF InvalidPathname(pathname) \/ method \notin DOMAIN routes
    THEN TRUE
    ELSE MapHas(routes[method], pathname.str) \/ Len(routes[method]) < MaxRoutes

\* get(pathname, handler)
Get(pathname, handler) ==
    /\ HasRoom("GET", pathname)
    /\ Add("GET", pathname, handler)
    /\ UNCHANGED <<calls, platform>>

\* post(pathname, handler)
Post(pathname, handler) ==
    /\ HasRoom("POST", pathname)
    /\ Add("POST", pathname, handler)
    /\ UNCHANGED <<calls, platform>>

DefaultPathname == JSString(<<"/","s","t","a","t","i","c">>)

DefaultFoldername == JSString(<<"s","t","a","t","i","c">>)

\* A default parameter value replaces undefined.
OrDefault(arg, default) == IF arg = Undefined THEN default ELSE arg

\* `${pathname}/:path*`
StaticPattern(pathname) ==
    JSString(ToStr(pathname) \o <<"/",":","p","a","t","h","*">>)

\* static(pathname = "/static", foldername = "static")
Static(pathnameArg, foldernameArg) ==
    LET pathname == OrDefault(pathnameArg, DefaultPathname)
        foldername == OrDefault(foldernameArg, DefaultFoldername)
    IN  /\ HasRoom("GET", StaticPattern(pathname))
        /\ Add("GET", StaticPattern(pathname), StaticHandler(ToStr(foldername)))
        /\ UNCHANGED <<calls, platform>>

-----------------------------------------------------------------------------
(* Dispatch: route(req).                                                   *)
(*                                                                         *)
(* A call record holds the locals of one route call (req, status and i,    *)
(* the position of the Map iterator of the for-of loop), where the call    *)
(* stands (pc) and what it has done so far: the patterns it tested, the    *)
(* handler invocations it made, what it wrote with console.error, and how  *)
(* the promise route returned was settled; while the call is suspended,    *)
(* size is the number of entries the table held when it was suspended.     *)

NoResult == [kind |-> "none", by |-> "", response |-> NoResponse, error |-> ""]

\* The promise of route fulfilled with a response; `by` tells whether a
\* handler returned the response or route built it itself.
Fulfilled(by, response) ==
    [kind |-> "response", by |-> by, response |-> response, error |-> ""]

\* The promise of route rejected with an error.
Rejected(error) ==
    [kind |-> "rejected", by |-> "", response |-> NoResponse, error |-> error]

IdleCall ==
    [pc |-> "idle", req |-> NoRequest, status |-> 405, i |-> 1, size |-> 0,
     tested |-> <<>>, invoked |-> <<>>, errors |-> <<>>, result |-> NoResult]

\* The catch block without its console.error.
CaughtSilently(call, outcome, error) ==
    [call EXCEPT !.invoked[Len(call.invoked)].outcome = outcome,
                 !.status = 500]

\* The catch block without its status = 500.
CaughtKeepsStatus(call, outcome, error) ==
    [call EXCEPT !.invoked[Len(call.invoked)].outcome = outcome,
                 !.errors = Append(@, error)]

\* catch (error) { console.error(error); status = 500; } on the invocation
\* the call made last.
Caught(call, outcome, error) ==
    [call EXCEPT !.invoked[Len(call.invoked)].outcome = outcome,
                 !.errors = Append(@, error),
                 !.status = 500]

\* The fallback with "not found" as the status of a call that tested nothing.
FallbackNotFound(call) ==
    [call EXCEPT !.pc = "done",
                 !.result = Fulfilled("route",
                                      Response(Null,
                                               IF call.status = 405 THEN 404
                                               ELSE call.status, {}))]

\* The fallback with the message of the error caught last as its body.
FallbackWithError(call) ==
    [call EXCEPT !.pc = "done",
                 !.result = Fulfilled("route",
                                      Response(IF call.errors = <<>> THEN Null
                                               ELSE [type |-> "string",
                                                     str |-> call.errors[Len(call.errors)]],
                                               call.status, {}))]

\* return new Response(null, { status })
Fallback(call) ==
    [call EXCEPT !.pc = "done",
                 !.result = Fulfilled("route", Response(Null, call.status, {}))]

\* The for-of loop over the live table of the request's method, from the
\* iterator's position to the next await or to the end of route.
RECURSIVE Loop(_, _)
Loop(call, table) ==
    IF call.i > Len(table)
    THEN Fallback(call)
    ELSE LET pathname == table[call.i].pathname
             handler == table[call.i].handler
             url == URLPattern(pathname)
             next == [call EXCEPT !.i = @ + 1]
         IN  IF ~url.valid
             THEN [next EXCEPT !.pc = "done", !.result = Rejected("TypeError")]
             ELSE IF Test(url, call.req.url)
             THEN LET params == Exec(url, call.req.url)
                      began ==
                          [next EXCEPT
                              !.tested = Append(@, [pathname |-> pathname,
                                                    matched |-> TRUE]),
                              !.invoked = Append(@, [pathname |-> pathname,
                                                     handler |-> handler,
                                                     req |-> call.req,
                                                     params |-> params,
                                                     outcome |-> "pending"])]
                      ret == HandlerCall(handler, call.req, params)
                  IN  IF ret.kind = "throw"
                      THEN Loop(Caught(began, "threw", ret.error), table)
                      ELSE [began EXCEPT !.pc = "await", !.size = Len(table)]
             ELSE Loop([next EXCEPT
                           !.status = 404,
                           !.tested = Append(@, [pathname |-> pathname,
                                                 matched |-> FALSE])],
                       table)

\* route that looks the request up in the GET table whatever its method.
RouteBeginGetOnly(call, req, rts) ==
    LET begun == [call EXCEPT !.pc = "run", !.req = req, !.status = 405, !.i = 1]
    IN  IF req.method \in DOMAIN rts
        THEN Loop(begun, rts["GET"])
        ELSE Fallback(begun)

\* route(req), from the call to the first await or to the end.
RouteBegin(call, req, rts) ==
    LET begun == [call EXCEPT !.pc = "run", !.req = req, !.status = 405, !.i = 1]
    IN  IF req.method \in DOMAIN rts
        THEN Loop(begun, rts[req.method])
        ELSE Fallback(begun)

\* RouteResume without the `return` of `return await handler(...)`: the
\* loop goes on after a handler has returned.
RouteResumeNoReturn(call, settled, rts) ==
    IF settled.kind = "value"
    THEN Loop([call EXCEPT !.size = 0,
                           !.invoked[Len(call.invoked)].outcome = "returned"],
              rts[call.req.method])
    ELSE Loop(Caught([call EXCEPT !.size = 0], "rejected", settled.error),
              rts[call.req.method])

\* RouteResume that answers a failure at once instead of going on to the
\* next pattern.
RouteResumeStopsOnFailure(call, settled, rts) ==
    IF settled.kind = "value"
    THEN [call EXCEPT !.pc = "done",
                      !.size = 0,
                      !.invoked[Len(call.invoked)].outcome = "returned",
                      !.result = Fulfilled("handler", settled.response)]
    ELSE Fallback(Caught([call EXCEPT !.size = 0], "rejected", settled.error))

\* RouteResume that tries the entry again whose handler failed.
RouteResumeRetries(call, settled, rts) ==
    IF settled.kind = "value"
    THEN [call EXCEPT !.pc = "done",
                      !.size = 0,
                      !.invoked[Len(call.invoked)].outcome = "returned",
                      !.result = Fulfilled("handler", settled.response)]
    ELSE Loop(Caught([call EXCEPT !.size = 0, !.i = @ - 1],
                     "rejected", settled.error),
              rts[call.req.method])

\* route, from the resumption of `await handler(...)` with the settled
\* result to the next await or to the end.
RouteResume(call, settled, rts) ==
    IF settled.kind = "value"
    THEN [call EXCEPT !.pc = "done",
                      !.size = 0,
                      !.invoked[Len(call.invoked)].outcome = "returned",
                      !.result = Fulfilled("handler", settled.response)]
    ELSE Loop(Caught([call EXCEPT !.size = 0], "rejected", settled.error),
              rts[call.req.method])

\* A caller calls route(req).
Route(c, req) ==
    /\ calls[c].pc = "idle"
    /\ calls' = [calls EXCEPT ![c] = RouteBegin(@, req, routes)]
    /\ UNCHANGED <<routes, lastAdd, platform>>

\* Resume with the iterator of the for-of loop shared by the calls in
\* flight: the call goes on behind the entry any call fetched last.
ResumeSharedIterator(c, opened) ==
    /\ calls[c].pc = "await"
    /\ LET inv == calls[c].invoked[Len(calls[c].invoked)]
           furthest == CHOOSE n \in {calls[d].i : d \in DOMAIN calls} :
                           \A d \in DOMAIN calls : calls[d].i <= n
       IN  calls' = [calls EXCEPT ![c] =
               RouteResume([@ EXCEPT !.i = furthest],
                           Settled(inv.handler, inv.req, inv.params, opened),
                           routes)]
    /\ UNCHANGED <<routes, lastAdd, platform>>

\* The promise a route call awaits settles and the call resumes.
Resume(c, opened) ==
    /\ calls[c].pc = "await"
    /\ LET inv == calls[c].invoked[Len(calls[c].invoked)]
       IN  calls' = [calls EXCEPT ![c] =
               RouteResume(@, Settled(inv.handler, inv.req, inv.params, opened),
                           routes)]
    /\ UNCHANGED <<routes, lastAdd, platform>>

\* The caller of route takes the settled promise; the slot is free again.
Deliver(c) ==
    /\ calls[c].pc = "done"
    /\ calls' = [calls EXCEPT ![c] = IdleCall]
    /\ UNCHANGED <<routes, lastAdd, platform>>

-----------------------------------------------------------------------------
(* The inputs of the model.                                                *)

PStatic == <<"/","s","t","a","t","i","c">>

PId == <<"/",":","i","d">>

PParen == <<"/","(">>

PB == <<"/","b">>

PFile == <<"/","s","t","a","t","i","c","/","b","/","c",".","j","s">>

\* The pathname arguments of get: two patterns that both match "/static",
\* a pattern URLPattern rejects, the empty string and a non-string.
GetPathnames ==
    {JSString(PStatic), JSString(PId), JSString(PParen), JSString(<<>>), JSNumber7}

PostPathnames == {JSString(PId), JSString(<<>>), Undefined}

GetHandlers == {hParams, hBody, hThrow}

PostHandlers == {hParams, hBody}

StaticPathnames == {Undefined}

StaticFoldernames == {Undefined}

Requests ==
    {Request("GET", u, NoBody) : u \in {PStatic, PB, PFile}}
    \cup {Request("POST", PB, NoBody), Request("POST", PFile, NoBody),
          Request("POST", PB, JsonBody(<<"T","E","S","T">>))}
    \cup {Request("TEST", PB, NoBody)}

Calls == {1}

-----------------------------------------------------------------------------
(* The specification.                                                      *)

\* new Router(): both method tables empty; no route call has been made.
Init ==
    /\ routes = [m \in Methods |-> <<>>]
    /\ calls = [c \in Calls |-> IdleCall]
    /\ lastAdd = "none"
    /\ platform \in {"unmatchedUndefined", "unmatchedEmpty"}

Next ==
    \/ \E p \in GetPathnames, h \in GetHandlers : Get(p, h)
    \/ \E p \in PostPathnames, h \in PostHandlers : Post(p, h)
    \/ \E p \in StaticPathnames, f \in StaticFoldernames : Static(p, f)
    \/ \E c \in DOMAIN calls, req \in Requests : Route(c, req)
    \/ \E c \in DOMAIN calls, opened \in BOOLEAN : Resume(c, opened)
    \/ \E c \in DOMAIN calls : Deliver(c)

Spec == Init /\ [][Next]_vars

-----------------------------------------------------------------------------
(* Registration as a unit: #add called with any method, as a registration  *)
(* method of the class other than get, post and static would call it, and  *)
(* get, post and static called with arguments of every kind.               *)

\* this.#add(method, pathname, handler)
CallAdd(method, pathname, handler) ==
    /\ HasRoom(method, pathname)
    /\ Add(method, pathname, handler)
    /\ UNCHANGED <<calls, platform>>

AddMethods == {"GET", "PUT", "TEST"}

AddPathnames == {JSString(PId), JSString(<<>>)}

RegistryPathnames == {JSString(PId), JSString(<<>>), JSNumber7, Undefined}

RegistryFoldernames == {Undefined}

RegistryRequests ==
    {Request(m, PB, NoBody) : m \in {"GET", "POST", "PUT", "TEST"}}

NextRegistry ==
    \/ \E m \in AddMethods, p \in AddPathnames : CallAdd(m, p, hParams)
    \/ \E p \in RegistryPathnames : Get(p, hThrow)
    \/ \E p \in RegistryPathnames : Post(p, hBody)
    \/ \E p \in RegistryPathnames, f \in RegistryFoldernames : Static(p, f)
    \/ \E c \in DOMAIN calls, req \in RegistryRequests : Route(c, req)
    \/ \E c \in DOMAIN calls, opened \in BOOLEAN : Resume(c, opened)
    \/ \E c \in DOMAIN calls : Deliver(c)

RegistrySpec == Init /\ [][NextRegistry]_vars

-----------------------------------------------------------------------------
(* Serving: the routes are registered first and then requests are served,  *)
(* two route calls in flight at a time, as under Deno.serve.               *)

ServingCalls == {1, 2}

\* The registration calls made before serving starts.
ServingRegistrations ==
    {[method |-> "GET", pathname |-> JSString(p), handler |-> h] :
        p \in {PStatic, PId}, h \in {hParams, hBody}}
    \cup {[method |-> "GET", pathname |-> JSString(PId), handler |-> hThrow],
          [method |-> "GET", pathname |-> StaticPattern(DefaultPathname),
           handler |-> StaticHandler(ToStr(DefaultFoldername))],
          [method |-> "POST", pathname |-> JSString(PId), handler |-> hBody]}

\* The registry after the registration calls regs, made in order on a new
\* Router.
RECURSIVE Registered(_)
Registered(regs) ==
    IF regs = <<>>
    THEN [m \in Methods |-> <<>>]
    ELSE LET r == regs[Len(regs)]
         IN  RoutesSet(Registered(SubSeq(regs, 1, Len(regs) - 1)),
                       r.method, r.pathname, r.handler)

\* What the last of the registration calls regs did.
LastAdded(regs) ==
    IF regs = <<>>
    THEN "none"
    ELSE LET r == regs[Len(regs)]
         IN  IF MapHas(Registered(SubSeq(regs, 1, Len(regs) - 1))[r.method],
                       r.pathname.str)
             THEN "replaced"
             ELSE "appended"

\* A Router after at most MaxRoutes of the given registration calls, with
\* the given callers of route; no route call has been made yet.
Serving(registrations, callers) ==
    /\ \E n \in 0..MaxRoutes :
          \E regs \in [1..n -> registrations] :
              /\ routes = Registered(regs)
              /\ lastAdd = LastAdded(regs)
    /\ calls = [c \in callers |-> IdleCall]
    /\ platform \in {"unmatchedUndefined", "unmatchedEmpty"}

InitServing == Serving(ServingRegistrations, ServingCalls)

NextServing ==
    \/ \E c \in DOMAIN calls, req \in Requests : Route(c, req)
    \/ \E c \in DOMAIN calls, opened \in BOOLEAN : Resume(c, opened)
    \/ \E c \in DOMAIN calls : Deliver(c)

ServingSpec == InitServing /\ [][NextServing]_vars

-----------------------------------------------------------------------------
(* One route call at a time on a fixed registry, every promise the call    *)
(* awaits settling in the end.                                             *)

\* The registration calls made before the requests: two patterns with a
\* handler that rejects for a request without a body, and static().
DispatchRegistrations ==
    {[method |-> "GET", pathname |-> JSString(p), handler |-> hBody] :
        p \in {PStatic, PId}}
    \cup {[method |-> "GET", pathname |-> StaticPattern(DefaultPathname),
           handler |-> StaticHandler(ToStr(DefaultFoldername))]}

InitDispatch == Serving(DispatchRegistrations, Calls)

\* Every promise a route call awaits settles: a handler that was invoked
\* returns or fails in the end.
HandlersSettle ==
    \A c \in Calls : WF_vars(\E opened \in BOOLEAN : Resume(c, opened))

DispatchSpec == InitDispatch /\ [][NextServing]_vars /\ HandlersSettle

-----------------------------------------------------------------------------
(* Properties of dispatch and registration.                                *)

Last(seq) == seq[Len(seq)]

Failed(inv) == inv.outcome \in {"threw", "rejected"}

\* The table route iterates for a request ("no entry" for other methods).
TableOf(req) == IF req.method \in DOMAIN routes THEN routes[req.method] ELSE <<>>

\* The empty-body response route builds itself.
Empty(status) == Fulfilled("route", Response(Null, status, {}))

\* The pathnames of the invocations a call made.
InvokedPathnames(call) ==
    [k \in 1..Len(call.invoked) |-> call.invoked[k].pathname]

\* The pathnames a call tested and found to match.
MatchedPathnames(call) ==
    LET hits == SelectSeq(call.tested, LAMBDA t : t.matched)
    IN  [k \in 1..Len(hits) |-> hits[k].pathname]

\* C1: every route call that has completed yielded a response; it never
\* rejected to its caller.
C1_RouteNeverRejects ==
    \A c \in DOMAIN calls :
        calls[c].pc = "done" => calls[c].result.kind = "response"

\* C2: a route call tests the patterns of the request's method in
\* registration order, invokes the handlers of exactly those that matched,
\* and once a handler has returned a response the call is over with exactly
\* that response: that handler's pattern is the last one fetched and tested,
\* and its invocation is the last one made.
C2_FirstReturnWins ==
    \A c \in DOMAIN calls :
        LET call == calls[c] IN
        call.pc # "idle" =>
            /\ Len(call.tested) <= Len(TableOf(call.req))
            /\ \A k \in 1..Len(call.tested) :
                  call.tested[k].pathname = TableOf(call.req)[k].pathname
            /\ InvokedPathnames(call) = MatchedPathnames(call)
            /\ \A k \in 1..Len(call.invoked) :
                  call.invoked[k].outcome = "returned" =>
                      /\ k = Len(call.invoked)
                      /\ call.pc = "done"
                      /\ Last(call.tested).pathname = call.invoked[k].pathname
                      /\ call.i = Len(call.tested) + 1
                      /\ \E opened \in BOOLEAN :
                            call.result =
                                Fulfilled("handler",
                                          Settled(call.invoked[k].handler, call.req,
                                                  call.invoked[k].params,
                                                  opened).response)

\* C2 witness: two patterns are registered for the method, both match the
\* request, the first one's handler returned and the second was not tested.
C2_Witness ==
    \E c \in DOMAIN calls :
        LET call == calls[c] IN
        /\ call.pc = "done"
        /\ call.result.by = "handler"
        /\ Len(call.tested) = 1
        /\ Len(TableOf(call.req)) = 2
        /\ \A k \in 1..2 :
              LET url == URLPattern(TableOf(call.req)[k].pathname)
              IN  url.valid /\ Test(url, call.req.url)

\* C3: of the dispatches that yield a response: when the handler invoked
\* last raised (so no pattern after it matched), the response is an empty
\* 500.
C3_FailureYields500 ==
    \A c \in DOMAIN calls :
        LET call == calls[c] IN
        (/\ call.pc = "done"
         /\ call.result.kind = "response"
         /\ call.invoked # <<>>
         /\ Failed(Last(call.invoked)))
            => call.result = Empty(500)

\* C4: a later handler is invoked only after every handler invoked before
\* it has failed; when a handler fails and a handler invoked after it
\* returns a response, route yields that response, not a 500; and route
\* answers by itself only once it has tested every pattern registered for
\* the method, so a failure never ends the search before a later pattern.
C4_LaterSuccessWins ==
    [][\A c \in DOMAIN calls :
          LET old == calls[c]
              new == calls'[c]
              table == TableOf(new.req)
          IN  /\ \A k \in 1..(Len(new.invoked) - 1) : Failed(new.invoked[k])
              /\ (/\ new.pc = "done"
                  /\ Len(new.invoked) >= 2
                  /\ Last(new.invoked).outcome = "returned")
                     => /\ new.result.kind = "response"
                        /\ new.result.by = "handler"
                        /\ new.result # Empty(500)
                        /\ \E opened \in BOOLEAN :
                              new.result.response =
                                  Settled(Last(new.invoked).handler, new.req,
                                          Last(new.invoked).params, opened).response
              /\ (old.pc # "done" /\ new.pc = "done" /\ new.result.by = "route")
                     => /\ Len(new.tested) = Len(table)
                        /\ new.i = Len(table) + 1
      ]_vars

\* C4 witness: two handlers were invoked, the first failed, the second
\* returned and its response is the result.
C4_Witness ==
    \E c \in DOMAIN calls :
        LET call == calls[c] IN
        /\ call.pc = "done"
        /\ Len(call.invoked) = 2
        /\ Failed(call.invoked[1])
        /\ call.invoked[2].outcome = "returned"
        /\ call.result.by = "handler"
        /\ call.status = 500

\* Whether the pattern registered as `pathname` matches the url.
Matches(pathname, reqUrl) ==
    URLPattern(pathname).valid /\ Test(URLPattern(pathname), reqUrl)

\* C5: when a call has ended at the end of a table that holds at least one
\* pattern and none of its patterns matches the request, no handler was
\* invoked and the result is an empty 404.
C5_NoMatchYields404 ==
    \A c \in DOMAIN calls :
        LET call == calls[c]
            table == TableOf(call.req)
        IN  (/\ call.pc = "done"
             /\ Len(table) >= 1
             /\ call.i = Len(table) + 1
             /\ \A k \in 1..Len(table) : ~Matches(table[k].pathname, call.req.url))
                => /\ call.invoked = <<>>
                   /\ call.result = Empty(404)

\* C6: a call for a method with no registered pattern (a method that has no
\* table, or GET or POST with an empty table) ends at once with an empty
\* 405, having tested and invoked nothing.
C6_NoPatternsYields405 ==
    \A c \in DOMAIN calls :
        LET call == calls[c] IN
        (call.pc # "idle" /\ TableOf(call.req) = <<>>)
            => /\ call.pc = "done"
               /\ call.tested = <<>>
               /\ call.invoked = <<>>
               /\ call.result = Empty(405)

\* C6 witness: a POST request got 405 while nothing is registered under
\* POST and GET has patterns.
C6_Witness ==
    \E c \in DOMAIN calls :
        /\ calls[c].pc = "done"
        /\ calls[c].req.method = "POST"
        /\ routes["POST"] = <<>>
        /\ routes["GET"] # <<>>
        /\ calls[c].result = Empty(405)

\* The registration calls of the model and what each hands to #add.
Registrations ==
    {[method |-> "GET", pathname |-> p, handler |-> h, arg |-> p, folder |-> Undefined,
      op |-> "get"] : p \in GetPathnames, h \in GetHandlers}
    \cup {[method |-> "POST", pathname |-> p, handler |-> h, arg |-> p,
           folder |-> Undefined, op |-> "post"] : p \in PostPathnames, h \in PostHandlers}
    \cup {[method |-> "GET",
           pathname |-> StaticPattern(OrDefault(p, DefaultPathname)),
           handler |-> StaticHandler(ToStr(OrDefault(f, DefaultFoldername))),
           arg |-> p, folder |-> f, op |-> "static"] :
             p \in StaticPathnames, f \in StaticFoldernames}

\* The step is the registration call r.
Registers(r) ==
    \/ r.op = "get" /\ Get(r.arg, r.handler)
    \/ r.op = "post" /\ Post(r.arg, r.handler)
    \/ r.op = "static" /\ Static(r.arg, r.folder)

\* C7: a get or post call whose pathname is not a string or is the empty
\* string throws to its caller and leaves both tables as they were.
C7_InvalidPathnameThrows ==
    [][(/\ calls' = calls
        /\ \E r \in Registrations :
              /\ r.op \in {"get", "post"}
              /\ (r.arg.type # "string" \/ r.arg.str = <<>>)
              /\ Registers(r))
           => (lastAdd' = "threw" /\ routes' = routes)
      ]_vars

\* C7 witness: a registration call threw while both tables held entries.
C7_Witness ==
    /\ lastAdd = "threw"
    /\ routes["GET"] # <<>>
    /\ routes["POST"] # <<>>

\* The handler registered for a pathname in a table.
HandlerAt(table, pathname) ==
    (CHOOSE e \in {table[k] : k \in 1..Len(table)} : e.pathname = pathname).handler

\* C8: a registration (a step of get, post or static, which leaves the
\* calls alone and does #add) for a (method, pattern) pair that is registered
\* already leaves the method's table with the same patterns at the same
\* positions, gives that pattern the new handler, keeps every other handler
\* and leaves the other method's table alone; and every invocation a route
\* call makes is of the handler registered for the pattern at that moment.
C8_OverwriteInPlace ==
    [][/\ (calls' = calls /\ lastAdd' = "replaced") =>
           \A r \in Registrations :
             (/\ r.pathname.type = "string" /\ r.pathname.str # <<>>
              /\ MapHas(routes[r.method], r.pathname.str)
              /\ Add(r.method, r.pathname, r.handler))
                 => /\ Len(routes'[r.method]) = Len(routes[r.method])
                    /\ \A k \in 1..Len(routes[r.method]) :
                          /\ routes'[r.method][k].pathname
                                = routes[r.method][k].pathname
                          /\ routes'[r.method][k].handler
                                = IF routes[r.method][k].pathname = r.pathname.str
                                  THEN r.handler
                                  ELSE routes[r.method][k].handler
                    /\ \A m \in Methods \ {r.method} : routes'[m] = routes[m]
        /\ \A c \in DOMAIN calls :
              \A k \in (Len(calls[c].invoked) + 1)..Len(calls'[c].invoked) :
                  LET inv == calls'[c].invoked[k]
                      table == routes[inv.req.method]
                  IN  /\ MapHas(table, inv.pathname)
                      /\ inv.handler = HandlerAt(table, inv.pathname)
      ]_vars

\* C8 witness: the last registration replaced a handler in a table of two
\* patterns and a completed dispatch invoked the handlers now registered.
C8_Witness ==
    \E c \in DOMAIN calls :
        LET call == calls[c] IN
        /\ lastAdd = "replaced"
        /\ call.pc = "done"
        /\ call.req.method = "GET"
        /\ Len(routes["GET"]) = 2
        /\ Len(call.invoked) = 2
        /\ \A k \in 1..2 :
              call.invoked[k].handler
                  = HandlerAt(routes["GET"], call.invoked[k].pathname)

\* The names of the captures of a pattern.
CaptureNames(parts) ==
    {parts[j].text : j \in {i \in 1..Len(parts) : parts[i].kind # "lit"}}

\* C9 as claimed: every invocation is handed params whose names are the
\* captures of the pattern, each :name bound to the path segment at its
\* position and a trailing :name* bound to the "/"-joined rest of the path
\* from its position on (the empty string when nothing is left).
C9_CapturesBindPath ==
    \A c \in DOMAIN calls :
        \A k \in 1..Len(calls[c].invoked) :
            LET inv == calls[c].invoked[k]
                parts == ParseParts(inv.pathname)
                pieces == Split(inv.req.url, "/")
            IN  /\ DOMAIN inv.params = CaptureNames(parts)
                /\ \A j \in 1..Len(parts) :
                      /\ parts[j].kind = "name" =>
                            inv.params[parts[j].text] = JSString(pieces[j])
                      /\ (parts[j].kind = "star" /\ j = Len(parts)) =>
                            inv.params[parts[j].text]
                                = JSString(Join(SubSeq(pieces, j, Len(pieces)), "/"))

\* C9 as amended: each :name is bound to the path segment at its position;
\* a trailing :name* is bound to the "/"-joined rest of the path when at
\* least one segment is left, and otherwise to the value the runtime gives
\* a group that matched nothing (undefined, or the empty string); a handler
\* that puts params.id in its body answers with that segment.
C9_CapturesBindSegments ==
    \A c \in DOMAIN calls :
        \A k \in 1..Len(calls[c].invoked) :
            LET inv == calls[c].invoked[k]
                parts == ParseParts(inv.pathname)
                pieces == Split(inv.req.url, "/")
            IN  /\ DOMAIN inv.params = CaptureNames(parts)
                /\ \A j \in 1..Len(parts) :
                      /\ parts[j].kind = "name" =>
                            inv.params[parts[j].text] = JSString(pieces[j])
                      /\ (parts[j].kind = "star" /\ j = Len(parts)) =>
                            IF j <= Len(pieces)
                            THEN inv.params[parts[j].text]
                                    = JSString(Join(SubSeq(pieces, j, Len(pieces)), "/"))
                            ELSE inv.params[parts[j].text]
                                    \in {Undefined, JSString(<<>>)}
                      /\ (/\ parts[j].kind = "name" /\ parts[j].text = IdGroup
                          /\ inv.handler = hParams /\ inv.outcome = "returned") =>
                            calls[c].result.response.body
                                = JSString(Greeting(pieces[j]))

\* C9 witness: the pattern /:id matched /b, params.id is "b" and the
\* response of the handler says so.
C9_Witness ==
    \E c \in DOMAIN calls :
        LET call == calls[c] IN
        /\ call.pc = "done"
        /\ call.req.url = PB
        /\ Len(call.invoked) = 1
        /\ call.invoked[1].pathname = PId
        /\ call.invoked[1].params[IdGroup] = JSString(<<"b">>)
        /\ call.result.response.body = JSString(<<"t","e","s","t",","," ","b","!">>)

\* C10: every handler invocation of a route call is handed the request of
\* that call, every pattern the call tests and every handler it invokes is
\* the one registered at that position under the request's own method, and
\* a handler that echoes the parsed request body answers with the body of
\* the request that was dispatched.
C10_MethodPartition ==
    [][\A c \in DOMAIN calls :
          LET old == calls[c]
              new == calls'[c]
          IN  /\ \A k \in 1..Len(new.invoked) : new.invoked[k].req = new.req
              /\ \A k \in (Len(old.tested) + 1)..Len(new.tested) :
                    /\ new.req.method \in DOMAIN routes
                    /\ k <= Len(routes[new.req.method])
                    /\ routes[new.req.method][k].pathname = new.tested[k].pathname
                    /\ new.tested[k].matched =>
                          routes[new.req.method][k].handler
                              = Last(SelectSeq(new.invoked,
                                     LAMBDA inv :
                                         inv.pathname = new.tested[k].pathname)).handler
              /\ (/\ new.pc = "done"
                  /\ new.invoked # <<>>
                  /\ Last(new.invoked).outcome = "returned"
                  /\ Last(new.invoked).handler = hBody)
                     => new.result.response.body
                            = JSString(Greeting(new.req.body.test))
      ]_vars

\* C10 witness: a POST request with a JSON body was answered by the handler
\* registered with post, with the body echoed, while GET holds a pattern
\* that matches the same path with another handler.
C10_Witness ==
    \E c \in DOMAIN calls :
        LET call == calls[c] IN
        /\ call.pc = "done"
        /\ call.req.method = "POST"
        /\ call.req.body.json
        /\ call.result.by = "handler"
        /\ Last(call.invoked).handler = hBody
        /\ call.result.response.body
              = JSString(<<"t","e","s","t",","," ","T","E","S","T","!">>)
        /\ \E k \in 1..Len(routes["GET"]) :
              /\ Matches(routes["GET"][k].pathname, call.req.url)
              /\ routes["GET"][k].handler # hBody

\* The error an invocation failed with.
ErrorOf(inv) ==
    IF inv.outcome = "threw"
    THEN HandlerCall(inv.handler, inv.req, inv.params).error
    ELSE Settled(inv.handler, inv.req, inv.params, FALSE).error

\* C11: what a route call has written with console.error is, in order, the
\* error of each of its invocations that failed (by a throw or by a
\* rejection), each once: as many records as failures, none when no handler
\* failed, and exactly one when exactly one invoked handler raised.
C11_EachFailureLoggedOnce ==
    \A c \in DOMAIN calls :
        LET call == calls[c]
            failed == SelectSeq(call.invoked, Failed)
        IN  /\ Len(call.errors) = Len(failed)
            /\ \A k \in 1..Len(failed) : call.errors[k] = ErrorOf(failed[k])

\* C11 witness: a completed call invoked two handlers, one threw and one
\* rejected, and the call wrote the two errors.
C11_Witness ==
    \E c \in DOMAIN calls :
        LET call == calls[c] IN
        /\ call.pc = "done"
        /\ Len(call.invoked) = 2
        /\ {call.invoked[1].outcome, call.invoked[2].outcome} = {"threw", "rejected"}
        /\ Len(call.errors) = 2
        /\ call.errors[1] # call.errors[2]

NotFoundResponse ==
    Response(JSString(<<"N","o","t"," ","F","o","u","n","d">>), 404, {})

\* C12: a static handler is invoked only by a GET request that matches the
\* pattern static registered it under, and no invocation of it ever fails;
\* when its file cannot be opened, the step that resumes the call ends it
\* with the handler's own response, status 404 and body "Not Found": the
\* step writes nothing with console.error, leaves the status variable
\* alone (no 500) and tests no further pattern.
C12_StaticMissYields404 ==
    [][\A c \in DOMAIN calls :
          LET old == calls[c]
              new == calls'[c]
          IN  /\ \A k \in 1..Len(new.invoked) :
                    new.invoked[k].handler.fn = "static" =>
                        /\ ~Failed(new.invoked[k])
                        /\ new.req.method = "GET"
                        /\ EndsWith(new.invoked[k].pathname,
                                    <<"/",":","p","a","t","h","*">>)
                        /\ Matches(new.invoked[k].pathname, new.req.url)
              /\ (/\ old.pc = "await"
                  /\ Last(old.invoked).handler.fn = "static"
                  /\ Resume(c, FALSE))
                     => /\ new.pc = "done"
                        /\ new.result = Fulfilled("handler", NotFoundResponse)
                        /\ Last(new.invoked).outcome = "returned"
                        /\ Len(new.invoked) = Len(old.invoked)
                        /\ new.errors = old.errors
                        /\ new.status = old.status
                        /\ new.tested = old.tested
                        /\ new.i = old.i
      ]_vars

\* C12 witness: static() was registered first and a pattern that matches
\* the request as well after it; the file could not be opened and the call
\* ended with the 404 of the static handler, one pattern tested, nothing
\* written, the status variable still 405.
C12_Witness ==
    \E c \in DOMAIN calls :
        LET call == calls[c]
            table == TableOf(call.req)
        IN  /\ call.pc = "done"
            /\ Len(table) = 2
            /\ table[1].handler.fn = "static"
            /\ Matches(table[2].pathname, call.req.url)
            /\ Len(call.tested) = 1
            /\ Len(call.invoked) = 1
            /\ call.invoked[1].handler.fn = "static"
            /\ call.errors = <<>>
            /\ call.status = 405
            /\ call.result = Fulfilled("handler", NotFoundResponse)

\* C13: a response route builds itself (one no handler returned) has a null
\* body, no headers and status 404, 405 or 500, whatever errors the call
\* caught; nothing of a caught error is in it.
C13_FallbackIsEmpty ==
    \A c \in DOMAIN calls :
        LET call == calls[c] IN
        (call.result.kind = "response" /\ call.result.by = "route")
            => /\ call.result.response.body = Null
               /\ call.result.response.headers = {}
               /\ call.result.response.status \in {404, 405, 500}

\* C13 witness: route answered by itself with 500 after it caught an error.
C13_Witness ==
    \E c \in DOMAIN calls :
        /\ calls[c].pc = "done"
        /\ calls[c].errors # <<>>
        /\ calls[c].result = Empty(500)

\* C15: when a call has ended with the response route builds itself (no
\* invoked handler returned one), its status follows from the entry tested
\* last alone: 405 when no entry was tested; 404 when the last tested
\* pattern did not match, whatever failed before; 500 when the last tested
\* pattern matched, and then its handler is the one invoked last and it
\* failed, whatever did not match before.
C15_LastTestedDecides ==
    \A c \in DOMAIN calls :
        LET call == calls[c] IN
        (call.pc = "done" /\ call.result.kind = "response" /\ call.result.by = "route")
            => /\ \A k \in 1..Len(call.invoked) : Failed(call.invoked[k])
               /\ call.result.response.status =
                     IF call.tested = <<>> THEN 405
                     ELSE IF Last(call.tested).matched THEN 500
                     ELSE 404
               /\ (call.tested # <<>> /\ Last(call.tested).matched)
                     => /\ Last(call.invoked).pathname = Last(call.tested).pathname
                        /\ Failed(Last(call.invoked))

\* C15 witness: of two patterns the first matched and its handler failed,
\* the second did not match, and route answered 404.
C15_Witness ==
    \E c \in DOMAIN calls :
        LET call == calls[c] IN
        /\ call.pc = "done"
        /\ Len(call.tested) = 2
        /\ call.tested[1].matched
        /\ ~call.tested[2].matched
        /\ Len(call.invoked) = 1
        /\ Failed(call.invoked[1])
        /\ call.result = Empty(404)

\* A route call that runs with no other call in flight, from the call to
\* its end, every promise it awaits settling in turn.
RECURSIVE Settle(_, _, _)
Settle(call, rts, opened) ==
    IF call.pc = "await"
    THEN LET inv == Last(call.invoked)
         IN  Settle(RouteResume(call,
                                Settled(inv.handler, inv.req, inv.params, opened),
                                rts),
                    rts, opened)
    ELSE call

Alone(req, rts, opened) == Settle(RouteBegin(IdleCall, req, rts), rts, opened)

\* C14: no step of a route call changes the registry, and with the
\* registry fixed while two route calls run interleaved at their awaits,
\* every call that ends has the result, the tested patterns, the handler
\* invocations and the error records of the same request dispatched alone
\* on that registry.
C14_IndependentDispatch ==
    [][/\ routes' = routes
       /\ \A c \in DOMAIN calls :
             calls'[c].pc = "done" =>
                 \E opened \in BOOLEAN :
                     calls'[c] = Alone(calls'[c].req, routes', opened)
      ]_vars

\* C14 witness: two calls are suspended at the same time, each behind its
\* first handler, with two patterns registered for their requests.
C14_Witness ==
    /\ \A c \in DOMAIN calls :
          /\ calls[c].pc = "await"
          /\ calls[c].req.method = "GET"
          /\ calls[c].i = 2
    /\ calls[1].req # calls[2].req
    /\ Len(routes["GET"]) = 2

\* C16: a call of #add for a method other than GET and POST with a valid
\* pathname (a non-empty string) throws nothing and leaves the registry as
\* it was, with tables for GET and POST only; and a route call for a method
\* that has no table, whatever was attempted for it, tests nothing, invokes
\* no handler and ends at once with an empty 405.
C16_UnknownMethodIgnored ==
    [][/\ calls' = calls =>
            \A m \in AddMethods \ Methods, p \in AddPathnames :
                (~InvalidPathname(p) /\ CallAdd(m, p, hParams))
                    => /\ lastAdd' = "ignored"
                       /\ routes' = routes
                       /\ DOMAIN routes' = Methods
       /\ \A c \in DOMAIN calls :
             LET new == calls'[c] IN
             (new.pc # "idle" /\ new.req.method \notin Methods)
                 => /\ new.pc = "done"
                    /\ new.tested = <<>>
                    /\ new.invoked = <<>>
                    /\ new.errors = <<>>
                    /\ new.result = Empty(405)
      ]_vars

\* C16 witness: a PUT request was answered 405 after a registration for a
\* method without a table was ignored, while GET holds a pattern that
\* matches the request.
C16_Witness ==
    \E c \in DOMAIN calls :
        /\ lastAdd = "ignored"
        /\ calls[c].pc = "done"
        /\ calls[c].req.method = "PUT"
        /\ calls[c].result = Empty(405)
        /\ \E k \in 1..Len(routes["GET"]) :
              Matches(routes["GET"][k].pathname, calls[c].req.url)

\* The pathname values the registration calls hand to #add.
HandedToAdd ==
    AddPathnames \cup RegistryPathnames
    \cup {StaticPattern(OrDefault(p, DefaultPathname)) : p \in RegistryPathnames}

\* The patterns stored in a table.
Keys(table) == {table[k].pathname : k \in 1..Len(table)}

\* C17: after every step (a call of get, post, static or #add, throwing or
\* not, or a step of a route call) the registry has tables for exactly GET
\* and POST, no stored pattern is empty, and every pattern a step stores is
\* the value of a non-empty string that was handed to #add.
C17_RegistryWellFormed ==
    [][/\ DOMAIN routes' = Methods
       /\ \A m \in Methods :
             /\ <<>> \notin Keys(routes'[m])
             /\ \A key \in Keys(routes'[m]) \ Keys(routes[m]) :
                   \E p \in HandedToAdd :
                       p.type = "string" /\ p.str # <<>> /\ p.str = key
      ]_vars

\* C17 witness: static("") and static(7) stored the patterns "/:path*" and
\* "7/:path*", and the registration call made last threw.
C17_Witness ==
    /\ lastAdd = "threw"
    /\ Keys(routes["GET"]) = {<<"/",":","p","a","t","h","*">>,
                              <<"7","/",":","p","a","t","h","*">>}
    /\ routes["POST"] # <<>>

\* C18: a registration made while a route call is suspended is not held
\* back; a new pattern for the method of the call's request goes behind
\* every entry of the table and leaves the call as it was; and when the
\* handler the call awaited has failed and the call ends as it resumes,
\* the call has tested, at its position, every entry that was appended
\* while it was suspended, and has invoked the handler of each that matched.
C18_LiveTableTested ==
    [][\A c \in DOMAIN calls :
          LET old == calls[c]
              new == calls'[c]
              table == TableOf(old.req)
          IN  /\ (/\ old.pc = "await"
                  /\ lastAdd' = "appended"
                  /\ routes'[old.req.method] # table)
                     => /\ new = old
                        /\ Len(routes'[old.req.method]) = Len(table) + 1
                        /\ SubSeq(routes'[old.req.method], 1, Len(table)) = table
              /\ (/\ old.pc = "await"
                  /\ new.pc = "done"
                  /\ Failed(new.invoked[Len(old.invoked)]))
                     => \A n \in (old.size + 1)..Len(table) :
                           /\ n <= Len(new.tested)
                           /\ new.tested[n].pathname = table[n].pathname
                           /\ new.tested[n].matched =>
                                 \E k \in 1..Len(new.invoked) :
                                     /\ new.invoked[k].pathname = table[n].pathname
                                     /\ new.invoked[k].handler = table[n].handler
      ]_vars

\* Whether no element occurs twice in the sequence.
Distinct(seq) == \A j, k \in 1..Len(seq) : seq[j] = seq[k] => j = k

\* C19: with the registry fixed and every awaited promise settling in the
\* end, a route call that is suspended ends (route suspends only at its
\* await); and at every moment a call
\* has tested the entries of the table of its request's method one by one
\* from the first, none twice, so at most as many tests as the table has
\* entries, and has invoked the handler of no entry twice.
C19_DispatchTerminates ==
    /\ [](\A c \in Calls :
             LET call == calls[c]
                 table == TableOf(call.req)
             IN  /\ Len(call.tested) <= Len(table)
                 /\ \A k \in 1..Len(call.tested) :
                       call.tested[k].pathname = table[k].pathname
                 /\ Distinct(InvokedPathnames(call))
                 /\ Len(call.invoked) <= Len(call.tested)
                 /\ call.i <= Len(table) + 1)
    /\ \A c \in Calls : (calls[c].pc = "await") ~> (calls[c].pc = "done")

\* C19 witness: a call ended after it had tested both entries of the table
\* and awaited both handlers, which both rejected.
C19_Witness ==
    \E c \in Calls :
        /\ calls[c].pc = "done"
        /\ Len(TableOf(calls[c].req)) = 2
        /\ Len(calls[c].tested) = 2
        /\ Len(calls[c].invoked) = 2
        /\ \A k \in 1..2 : calls[c].invoked[k].outcome = "rejected"
        /\ calls[c].result = Empty(500)

====
